---------------------------- MODULE Spec2Model ----------------------------
(***************************************************************************)
(* TrendRadar HTML report (src/trendradar/report/html.py).                 *)
(*                                                                         *)
(* Three parts of the program are modelled:                                *)
(*   - the segmentation of the measured document into image segments       *)
(*     (the synchronous prefix of saveAsMultipleImages),                   *)
(*   - the assembly of the region contents with dynamic section dividers   *)
(*     (render_html_content),                                              *)
(*   - the two asynchronous export functions saveAsImage and               *)
(*     saveAsMultipleImages with their timers and capture promises.        *)
(* Lengths are in layout units; the budget 5000 / 1.5 px of the code is    *)
(* drawn from a small range of units.                                      *)
(***************************************************************************)
EXTENDS Integers, Sequences, FiniteSets, TLC

VARIABLES
    layout,         \* the laid-out document: boxes in document order
    maxHeight,      \* const maxHeight = 5000 / scale
    elements,       \* const elements = [] of saveAsMultipleImages
    segments,       \* const segments = [] of saveAsMultipleImages
    pc,             \* where each export function is suspended
    btnText,        \* button.textContent of the two save buttons
    btnDisabled,    \* button.disabled of the two save buttons
    originalText,   \* const originalText of each export function
    buttonsVisible, \* .save-buttons: style.visibility is not 'hidden'
    segI,           \* i of the capture loop of saveAsMultipleImages, from 1
    dlI,            \* i of the download loop of saveAsMultipleImages, from 1
    images,         \* const images = [] of saveAsMultipleImages
    captures,       \* the html2canvas promises not yet consumed
    bodyTemp,       \* temporary containers appended to document.body
    downloads,      \* link.click() of the current call of each function
    args,           \* the arguments of render_html_content
    html,           \* the string render_html_content returns
    clock,          \* the time get_time_func() or datetime.now() reads, in ticks
    calls,          \* the calls that have returned: the time read, the string
    raised          \* the KeyError a call has raised, "" when none

segVars == <<layout, maxHeight, elements, segments>>
exportVars == <<pc, btnText, btnDisabled, originalText, buttonsVisible, segI, dlI,
                images, captures, bodyTemp, downloads>>
renderVars == <<args, html, clock, calls, raised>>
vars == <<layout, maxHeight, elements, segments, pc, btnText, btnDisabled,
          originalText, buttonsVisible, segI, dlI, images, captures, bodyTemp,
          downloads, args, html, clock, calls, raised>>

-----------------------------------------------------------------------------
(* Bounds of the model *)
MaxBlocks == 3          \* boxes between the header and the footer
MaxBlockHeight == 4     \* height of one such box
MaxHeaderHeight == 2    \* height of the header box
MaxFooterHeight == 1    \* height of the footer box
BudgetSpread == 1       \* budgets run from above the header up this many units
MaxTempContainers == 2  \* temporary containers in document.body at one time
MaxOrderLen == 2        \* length of a region_order other than the default one
MaxRanksLen == 2        \* length of the ranks list of an entry
TicksPerMinute == 2     \* ticks of the clock in one minute
MaxClock == 3           \* the last tick of the clock

-----------------------------------------------------------------------------
(* The measured document *)

\* The kinds of box the layout distinguishes.  "other" is content that is no
\* anchor of the split: the rss, standalone and ai sections, paddings, margins.
ContentTypes == {"word-header", "news-item", "new-section", "other"}

Box(t, h) == [type |-> t, height |-> h]

RECURSIVE SumHeights(_, _)
SumHeights(boxes, n) ==
    IF n = 0 THEN 0 ELSE SumHeights(boxes, n - 1) + boxes[n].height

\* rect.top - containerRect.top and rect.bottom - containerRect.top of box k
TopOf(boxes, k) == SumHeights(boxes, k - 1)
BottomOf(boxes, k) == SumHeights(boxes, k)

\* container.offsetHeight
ContainerHeight(boxes) == SumHeights(boxes, Len(boxes))

\* What render_html_content can produce: the header, then the error section if
\* any, then the regions in the configured order, then the footer.  The word
\* groups of the hotlist are consecutive; a news-item of a word group follows
\* its word-header; there is one new-section at most.
WellFormed(boxes) ==
    LET n == Len(boxes)
        Idx(t) == {k \in 1..n : boxes[k].type = t}
        Hot == Idx("word-header") \cup Idx("news-item")
    IN  /\ n >= 2
        /\ boxes[1].type = "header"
        /\ boxes[n].type = "footer"
        /\ \A k \in 2..(n - 1) : boxes[k].type \in ContentTypes \cup {"error"}
        /\ \A k \in Idx("error") : k = 2
        /\ \A k \in Idx("news-item") :
               boxes[k - 1].type \in {"word-header", "news-item"}
        /\ Cardinality(Idx("new-section")) <= 1
        /\ \A a \in Hot : \A b \in Hot : \A k \in a..b : k \in Hot

\* the document with blocks of types s and heights hs between header and footer
Layout(s, hh, hs, fh) ==
    <<Box("header", hh)>> \o [k \in 1..Len(s) |-> Box(s[k], hs[k])]
                          \o <<Box("footer", fh)>>

\* the sequences of block types of a well-formed document
Shapes ==
    { s \in UNION { [1..n -> ContentTypes \cup {"error"}] : n \in 0..MaxBlocks } :
        WellFormed(Layout(s, 1, [k \in 1..Len(s) |-> 1], 1)) }

Budgets == (MaxHeaderHeight + 1)..(MaxHeaderHeight + BudgetSpread)

-----------------------------------------------------------------------------
(* saveAsMultipleImages: the anchor list *)

Element(t, top, bottom, h) ==
    [type |-> t, top |-> top, bottom |-> bottom, height |-> h]

Indices(boxes, t) == {k \in 1..Len(boxes) : boxes[k].type = t}

RECURSIVE SeqOfSet(_, _)
\* the members of a set of indices, ascending: querySelectorAll is in document order
SeqOfSet(S, lo) ==
    IF S = {} THEN <<>>
    ELSE IF lo \in S THEN <<lo>> \o SeqOfSet(S \ {lo}, lo + 1)
    ELSE SeqOfSet(S, lo + 1)

\* elements.push({type: 'header', top: 0, bottom: header.offsetHeight, ...})
HeaderElement(boxes) ==
    Element("header", 0, boxes[1].height, boxes[1].height)

\* if (errorSection) elements.push({type: 'error', ...})
ErrorElements(boxes) ==
    LET S == Indices(boxes, "error")
    IN  IF S = {} THEN <<>>
        ELSE LET k == CHOOSE x \in S : \A y \in S : x <= y
             IN  <<Element("error", TopOf(boxes, k), BottomOf(boxes, k), boxes[k].height)>>

\* wordGroups.forEach(group => { word-header; groupNewsItems.forEach(item) })
\* The boxes of the word groups are pushed in document order.
WordGroupElements(boxes) ==
    LET S == Indices(boxes, "word-header") \cup Indices(boxes, "news-item")
        order == SeqOfSet(S, 1)
    IN  [j \in 1..Len(order) |->
            Element(boxes[order[j]].type, TopOf(boxes, order[j]),
                    BottomOf(boxes, order[j]), boxes[order[j]].height)]

\* if (newSection) elements.push({type: 'new-section', ...})
NewSectionElements(boxes) ==
    LET S == Indices(boxes, "new-section")
    IN  IF S = {} THEN <<>>
        ELSE LET k == CHOOSE x \in S : \A y \in S : x <= y
             IN  <<Element("new-section", TopOf(boxes, k), BottomOf(boxes, k),
                           boxes[k].height)>>

\* elements.push({type: 'footer', ...})
FooterElement(boxes) ==
    LET k == Len(boxes)
    IN  Element("footer", TopOf(boxes, k), BottomOf(boxes, k), boxes[k].height)

\* The list is filled in the order of the code, whatever the order of the
\* regions in the document.
BuildElements(boxes) ==
    <<HeaderElement(boxes)>> \o ErrorElements(boxes) \o WordGroupElements(boxes)
        \o NewSectionElements(boxes) \o <<FooterElement(boxes)>>

-----------------------------------------------------------------------------
(* saveAsMultipleImages: the split points *)

Segment(s, e, h, inc) == [start |-> s, end |-> e, height |-> h, includeHeader |-> inc]

\* NeedsNewSegment without the test that keeps a block with the header.
NeedsNewSegment_BudgetOnly(potentialHeight, currentHeight, maxH, headerHeight) ==
    potentialHeight > maxH

\* NeedsNewSegment with the height the segment has now tested against the
\* budget instead of the height it would have with the element.
NeedsNewSegment_CurrentHeight(potentialHeight, currentHeight, maxH, headerHeight) ==
    currentHeight > maxH /\ currentHeight > headerHeight

\* if (potentialHeight > maxHeight && currentSegment.height > headerHeight)
NeedsNewSegment(potentialHeight, currentHeight, maxH, headerHeight) ==
    potentialHeight > maxH /\ currentHeight > headerHeight

\* SplitStep with the new segment opened at the top of the element that did
\* not fit instead of at the end of the segment just closed.
SplitStep_StartAtTop(st, elems, i, maxH, headerHeight) ==
    LET element == elems[i]
        cur == st.cur
        potentialHeight == element.bottom - cur.start
    IN  IF NeedsNewSegment(potentialHeight, cur.height, maxH, headerHeight)
        THEN LET closed == [cur EXCEPT !.end = elems[i - 1].bottom]
             IN  [cur  |-> Segment(element.top, 0, element.bottom - element.top, FALSE),
                  segs |-> Append(st.segs, closed)]
        ELSE [cur  |-> [cur EXCEPT !.height = potentialHeight, !.end = element.bottom],
              segs |-> st.segs]

\* SplitStep with the segment closed where the budget is used up instead of at
\* the bottom edge of the previous element.
SplitStep_CutAtBudget(st, elems, i, maxH, headerHeight) ==
    LET element == elems[i]
        cur == st.cur
        potentialHeight == element.bottom - cur.start
    IN  IF NeedsNewSegment(potentialHeight, cur.height, maxH, headerHeight)
        THEN LET closed == [cur EXCEPT !.end = cur.start + maxH]
             IN  [cur  |-> Segment(closed.end, 0, element.bottom - closed.end, FALSE),
                  segs |-> Append(st.segs, closed)]
        ELSE [cur  |-> [cur EXCEPT !.height = potentialHeight, !.end = element.bottom],
              segs |-> st.segs]

\* SplitStep with no new segment opened in front of an element that is itself
\* higher than the budget.
SplitStep_KeepOversize(st, elems, i, maxH, headerHeight) ==
    LET element == elems[i]
        cur == st.cur
        potentialHeight == element.bottom - cur.start
    IN  IF /\ NeedsNewSegment(potentialHeight, cur.height, maxH, headerHeight)
           /\ element.height <= maxH
        THEN LET closed == [cur EXCEPT !.end = elems[i - 1].bottom]
             IN  [cur  |-> Segment(closed.end, 0, element.bottom - closed.end, FALSE),
                  segs |-> Append(st.segs, closed)]
        ELSE [cur  |-> [cur EXCEPT !.height = potentialHeight, !.end = element.bottom],
              segs |-> st.segs]

\* One pass of the for loop: st = [cur, segs] before element i is looked at.
SplitStep(st, elems, i, maxH, headerHeight) ==
    LET element == elems[i]
        cur == st.cur
        potentialHeight == element.bottom - cur.start
    IN  IF NeedsNewSegment(potentialHeight, cur.height, maxH, headerHeight)
        THEN LET closed == [cur EXCEPT !.end = elems[i - 1].bottom]
             IN  [cur  |-> Segment(closed.end, 0, element.bottom - closed.end, FALSE),
                  segs |-> Append(st.segs, closed)]
        ELSE [cur  |-> [cur EXCEPT !.height = potentialHeight, !.end = element.bottom],
              segs |-> st.segs]

RECURSIVE SplitLoop(_, _, _, _, _)
\* for (let i = 1; i < elements.length; i++), with i counted from 1 here
SplitLoop(st, elems, i, maxH, headerHeight) ==
    IF i > Len(elems) THEN st
    ELSE SplitLoop(SplitStep(st, elems, i, maxH, headerHeight), elems, i + 1,
                   maxH, headerHeight)

\* if (currentSegment.height > 0) { end = container.offsetHeight; push }
PushLast(st, containerHeight) ==
    IF st.cur.height > 0
    THEN Append(st.segs, [st.cur EXCEPT !.end = containerHeight])
    ELSE st.segs

ComputeSegments(elems, maxH, containerHeight) ==
    LET headerHeight == elems[1].height
        first == [cur |-> Segment(0, 0, headerHeight, TRUE), segs |-> <<>>]
    IN  PushLast(SplitLoop(first, elems, 2, maxH, headerHeight), containerHeight)

-----------------------------------------------------------------------------
(* The page as loaded: no export has been started *)

SI == "saveAsImage"
SM == "saveAsMultipleImages"
Fns == {SI, SM}

Label(kind, i, n) == [kind |-> kind, i |-> i, n |-> n]

\* <button class="save-btn" onclick="saveAsImage()"> and its neighbour
ButtonLabel(f) ==
    IF f = SI THEN Label("SaveAsImage", 0, 0) ELSE Label("SaveSegmented", 0, 0)

PageLoaded ==
    /\ pc = [f \in Fns |-> "idle"]
    /\ btnText = [f \in Fns |-> ButtonLabel(f)]
    /\ btnDisabled = [f \in Fns |-> FALSE]
    /\ originalText = [f \in Fns |-> ButtonLabel(f)]
    /\ buttonsVisible = TRUE
    /\ segI = 0
    /\ dlI = 0
    /\ images = <<>>
    /\ captures = {}
    /\ bodyTemp = 0
    /\ downloads = [f \in Fns |-> <<>>]

\* render_html_content is not part of the run
NotRendered ==
    /\ args = [region_order |-> <<>>]
    /\ html = <<>>
    /\ clock = 0
    /\ calls = <<>>
    /\ raised = ""

-----------------------------------------------------------------------------
(* The segmentation applied to every measured document *)

\* const maxHeight = 5000 / scale with scale = 1.5, in px: 3333.33...  The
\* measured offsets compared with it are whole numbers here, and a whole
\* number is above 3333.33 exactly when it is above 3333.
PageMaxHeight == 3333

\* A document in px: page header 400, optionally the header of the word group
\* (w px, none when w = 0), three news items of 1500, page footer 300.
ThreeItemsLayout(w) ==
    <<Box("header", 400)>>
        \o (IF w = 0 THEN <<>> ELSE <<Box("word-header", w)>>)
        \o <<Box("news-item", 1500), Box("news-item", 1500), Box("news-item", 1500),
             Box("footer", 300)>>

\* A document in px whose one word group holds one news item of 6000.
TallItemLayout(hh, w, fh) ==
    <<Box("header", hh), Box("word-header", w), Box("news-item", 6000),
      Box("footer", fh)>>

\* the documents in px, measured against the budget of the page
PxLayouts ==
    { ThreeItemsLayout(w) : w \in 0..MaxBlockHeight }
        \cup { TallItemLayout(hh, w, fh) : hh \in 1..MaxHeaderHeight,
                                          w \in 1..MaxBlockHeight,
                                          fh \in 1..MaxFooterHeight }

SegInit ==
    /\ \/ /\ \E s \in Shapes, hh \in 1..MaxHeaderHeight, fh \in 1..MaxFooterHeight :
                 \E hs \in [1..Len(s) -> 1..MaxBlockHeight] :
                     layout = Layout(s, hh, hs, fh)
          /\ maxHeight \in Budgets
       \/ /\ layout \in PxLayouts
          /\ maxHeight = PageMaxHeight
    /\ elements = <<>>
    /\ segments = <<>>
    /\ PageLoaded
    /\ NotRendered

\* the synchronous measuring and splitting of saveAsMultipleImages
Segmentation ==
    /\ elements = <<>>
    /\ elements' = BuildElements(layout)
    /\ segments' = ComputeSegments(BuildElements(layout), maxHeight,
                                   ContainerHeight(layout))
    /\ UNCHANGED <<layout, maxHeight>>
    /\ UNCHANGED <<exportVars, renderVars>>

SegNext == Segmentation

SpecSegment == SegInit /\ [][SegNext]_vars

-----------------------------------------------------------------------------
(* The export functions of the page *)

\* The documents the exports are run on: one, two and four segments at a
\* budget of 3 units.
ExportLayouts ==
    { <<Box("header", 1), Box("footer", 1)>>,
      <<Box("header", 1), Box("word-header", 1), Box("news-item", 2),
        Box("footer", 1)>>,
      <<Box("header", 1), Box("word-header", 1), Box("news-item", 2),
        Box("other", 1), Box("new-section", 3), Box("footer", 1)>> }

ExportBudget == MaxHeaderHeight + 1

\* canvas.toDataURL of the capture of `height` units from offset y of the target
Image(target, y, height) == [target |-> target, y |-> y, height |-> height]

Capture(f, k, img) == [by |-> f, seg |-> k, image |-> img, status |-> "pending"]

\* link.download and link.href: part 0 is the name without a _part suffix
Artifact(part, img) == [part |-> part, href |-> img]

CapturesOf(f) == {c \in captures : c.by = f}

\* A click reaches onclick only on an enabled button that is not hidden.
Clickable(f) == ~btnDisabled[f] /\ buttonsVisible

ExportInit ==
    /\ layout \in ExportLayouts
    /\ maxHeight = ExportBudget
    /\ elements = <<>>
    /\ segments = <<>>
    /\ PageLoaded
    /\ NotRendered

\* saveAsImage up to its first await
SIClick ==
    /\ Clickable(SI)
    /\ pc[SI] = "idle"
    /\ originalText' = [originalText EXCEPT ![SI] = btnText[SI]]
    /\ btnText' = [btnText EXCEPT ![SI] = Label("Generating", 0, 0)]
    /\ btnDisabled' = [btnDisabled EXCEPT ![SI] = TRUE]
    /\ downloads' = [downloads EXCEPT ![SI] = <<>>]
    /\ pc' = [pc EXCEPT ![SI] = "wait200"]
    /\ UNCHANGED <<buttonsVisible, segI, dlI, images, captures, bodyTemp>>
    /\ UNCHANGED <<segVars, renderVars>>

\* after the 200 ms: the buttons are hidden, then 100 ms more
SIHideButtons ==
    /\ pc[SI] = "wait200"
    /\ buttonsVisible' = FALSE
    /\ pc' = [pc EXCEPT ![SI] = "wait100"]
    /\ UNCHANGED <<btnText, btnDisabled, originalText, segI, dlI, images, captures,
                   bodyTemp, downloads>>
    /\ UNCHANGED <<segVars, renderVars>>

\* after the 100 ms: html2canvas(container, ...) is called and awaited
SIStartCapture ==
    /\ pc[SI] = "wait100"
    /\ captures' = captures \cup
           {Capture(SI, 0, Image("container", 0, ContainerHeight(layout)))}
    /\ pc' = [pc EXCEPT ![SI] = "capturing"]
    /\ UNCHANGED <<btnText, btnDisabled, originalText, buttonsVisible, segI, dlI,
                   images, bodyTemp, downloads>>
    /\ UNCHANGED <<segVars, renderVars>>

\* the capture has resolved: the download, the success label, the 2 s timer
SICaptured ==
    /\ pc[SI] = "capturing"
    /\ \E c \in CapturesOf(SI) :
        /\ c.status = "resolved"
        /\ captures' = captures \ {c}
        /\ downloads' = [downloads EXCEPT ![SI] = Append(@, Artifact(0, c.image))]
    /\ buttonsVisible' = TRUE
    /\ btnText' = [btnText EXCEPT ![SI] = Label("Saved", 0, 0)]
    /\ pc' = [pc EXCEPT ![SI] = "savedShown"]
    /\ UNCHANGED <<btnDisabled, originalText, segI, dlI, images, bodyTemp>>
    /\ UNCHANGED <<segVars, renderVars>>

\* catch (error) of saveAsImage
SIFailed ==
    /\ pc[SI] = "capturing"
    /\ \E c \in CapturesOf(SI) :
        /\ c.status = "rejected"
        /\ captures' = captures \ {c}
    /\ buttonsVisible' = TRUE
    /\ btnText' = [btnText EXCEPT ![SI] = Label("Failed", 0, 0)]
    /\ pc' = [pc EXCEPT ![SI] = "failedShown"]
    /\ UNCHANGED <<btnDisabled, originalText, segI, dlI, images, bodyTemp, downloads>>
    /\ UNCHANGED <<segVars, renderVars>>

\* the 2 s timer of either branch of saveAsImage
SIRestore ==
    /\ pc[SI] \in {"savedShown", "failedShown"}
    /\ btnText' = [btnText EXCEPT ![SI] = originalText[SI]]
    /\ btnDisabled' = [btnDisabled EXCEPT ![SI] = FALSE]
    /\ pc' = [pc EXCEPT ![SI] = "idle"]
    /\ UNCHANGED <<originalText, buttonsVisible, segI, dlI, images, captures,
                   bodyTemp, downloads>>
    /\ UNCHANGED <<segVars, renderVars>>

\* saveAsMultipleImages up to its first await: the measuring, the split, the
\* hiding of the buttons and the temporary container of the first segment
SMClick ==
    /\ Clickable(SM)
    /\ pc[SM] = "idle"
    /\ bodyTemp < MaxTempContainers
    /\ LET elems == BuildElements(layout)
           segs == ComputeSegments(elems, maxHeight, ContainerHeight(layout))
           n == Len(segs)
       IN  /\ elements' = elems
           /\ segments' = segs
           /\ IF n > 0
              THEN /\ btnText' = [btnText EXCEPT ![SM] = Label("Progress", 1, n)]
                   /\ buttonsVisible' = FALSE
                   /\ segI' = 1
                   /\ bodyTemp' = bodyTemp + 1
                   /\ pc' = [pc EXCEPT ![SM] = "domWait"]
              ELSE /\ btnText' = [btnText EXCEPT ![SM] = Label("SavedN", 0, 0)]
                   /\ buttonsVisible' = TRUE
                   /\ segI' = 0
                   /\ bodyTemp' = bodyTemp
                   /\ pc' = [pc EXCEPT ![SM] = "savedShown"]
    /\ originalText' = [originalText EXCEPT ![SM] = btnText[SM]]
    /\ btnDisabled' = [btnDisabled EXCEPT ![SM] = TRUE]
    /\ images' = <<>>
    /\ dlI' = 0
    /\ downloads' = [downloads EXCEPT ![SM] = <<>>]
    /\ UNCHANGED <<layout, maxHeight, captures, renderVars>>

\* SMStartCapture without the await: the loop goes on to the next segment
\* while the capture is still pending.
SMStartCapture_NoAwait ==
    /\ pc[SM] = "domWait"
    /\ captures' = captures \cup
           {Capture(SM, segI,
                    Image("clone", segments[segI].start,
                          segments[segI].end - segments[segI].start))}
    /\ IF segI < Len(segments)
       THEN segI' = segI + 1 /\ pc' = pc
       ELSE segI' = segI /\ pc' = [pc EXCEPT ![SM] = "capturing"]
    /\ UNCHANGED <<btnText, btnDisabled, originalText, buttonsVisible, dlI,
                   images, bodyTemp, downloads>>
    /\ UNCHANGED <<segVars, renderVars>>

\* after the 100 ms: html2canvas(clonedContainer, ...) for segments[i]
SMStartCapture ==
    /\ pc[SM] = "domWait"
    /\ captures' = captures \cup
           {Capture(SM, segI,
                    Image("clone", segments[segI].start,
                          segments[segI].end - segments[segI].start))}
    /\ pc' = [pc EXCEPT ![SM] = "capturing"]
    /\ UNCHANGED <<btnText, btnDisabled, originalText, buttonsVisible, segI, dlI,
                   images, bodyTemp, downloads>>
    /\ UNCHANGED <<segVars, renderVars>>

\* SMCaptured with each image downloaded as soon as its capture has resolved.
SMCaptured_DownloadEach ==
    /\ pc[SM] = "capturing"
    /\ \E c \in CapturesOf(SM) :
        /\ c.status = "resolved"
        /\ captures' = captures \ {c}
        /\ images' = Append(images, c.image)
        /\ downloads' = [downloads EXCEPT ![SM] = Append(@, Artifact(segI, c.image))]
    /\ IF segI < Len(segments)
       THEN /\ segI' = segI + 1
            /\ btnText' = [btnText EXCEPT
                              ![SM] = Label("Progress", segI + 1, Len(segments))]
            /\ bodyTemp' = (bodyTemp - 1) + 1
            /\ pc' = [pc EXCEPT ![SM] = "domWait"]
            /\ UNCHANGED <<buttonsVisible, dlI>>
       ELSE /\ segI' = segI + 1
            /\ bodyTemp' = bodyTemp - 1
            /\ buttonsVisible' = TRUE
            /\ dlI' = Len(images')
            /\ pc' = [pc EXCEPT ![SM] = "dlWait"]
            /\ UNCHANGED btnText
    /\ UNCHANGED <<btnDisabled, originalText>>
    /\ UNCHANGED <<segVars, renderVars>>

\* the capture of segments[i] has resolved: images.push, the temporary
\* container is removed, then the next segment or, after the last one, the
\* buttons are shown again and the first download is triggered
SMCaptured ==
    /\ pc[SM] = "capturing"
    /\ \E c \in CapturesOf(SM) :
        /\ c.status = "resolved"
        /\ captures' = captures \ {c}
        /\ images' = Append(images, c.image)
    /\ IF segI < Len(segments)
       THEN /\ segI' = segI + 1
            /\ btnText' = [btnText EXCEPT
                              ![SM] = Label("Progress", segI + 1, Len(segments))]
            /\ bodyTemp' = (bodyTemp - 1) + 1
            /\ pc' = [pc EXCEPT ![SM] = "domWait"]
            /\ UNCHANGED <<buttonsVisible, dlI, downloads>>
       ELSE /\ segI' = segI + 1
            /\ bodyTemp' = bodyTemp - 1
            /\ buttonsVisible' = TRUE
            /\ downloads' = [downloads EXCEPT ![SM] = Append(@, Artifact(1, images'[1]))]
            /\ dlI' = 1
            /\ pc' = [pc EXCEPT ![SM] = "dlWait"]
            /\ UNCHANGED btnText
    /\ UNCHANGED <<btnDisabled, originalText>>
    /\ UNCHANGED <<segVars, renderVars>>

\* SMDownloadNext with the parts numbered by the loop index, from 0.
SMDownloadNext_ZeroBased ==
    /\ pc[SM] = "dlWait"
    /\ IF dlI < Len(images)
       THEN /\ downloads' = [downloads EXCEPT
                                ![SM] = Append(@, Artifact(dlI, images[dlI + 1]))]
            /\ dlI' = dlI + 1
            /\ UNCHANGED <<pc, btnText>>
       ELSE /\ btnText' = [btnText EXCEPT ![SM] = Label("SavedN", 0, Len(segments))]
            /\ pc' = [pc EXCEPT ![SM] = "savedShown"]
            /\ UNCHANGED <<dlI, downloads>>
    /\ UNCHANGED <<btnDisabled, originalText, buttonsVisible, segI, images, captures,
                   bodyTemp>>
    /\ UNCHANGED <<segVars, renderVars>>

\* after the 100 ms of the download loop: the next download, or the success
\* label and the 2 s timer
SMDownloadNext ==
    /\ pc[SM] = "dlWait"
    /\ IF dlI < Len(images)
       THEN /\ downloads' = [downloads EXCEPT
                                ![SM] = Append(@, Artifact(dlI + 1, images[dlI + 1]))]
            /\ dlI' = dlI + 1
            /\ UNCHANGED <<pc, btnText>>
       ELSE /\ btnText' = [btnText EXCEPT ![SM] = Label("SavedN", 0, Len(segments))]
            /\ pc' = [pc EXCEPT ![SM] = "savedShown"]
            /\ UNCHANGED <<dlI, downloads>>
    /\ UNCHANGED <<btnDisabled, originalText, buttonsVisible, segI, images, captures,
                   bodyTemp>>
    /\ UNCHANGED <<segVars, renderVars>>

\* SMFailed with the failed capture tried again instead of the export given up.
SMFailed_Retry ==
    /\ pc[SM] = "capturing"
    /\ \E c \in CapturesOf(SM) :
        /\ c.status = "rejected"
        /\ captures' = captures \ {c}
    /\ pc' = [pc EXCEPT ![SM] = "domWait"]
    /\ UNCHANGED <<btnText, btnDisabled, originalText, buttonsVisible, segI, dlI,
                   images, bodyTemp, downloads>>
    /\ UNCHANGED <<segVars, renderVars>>

\* SMFailed without the timer that restores the button.
SMFailed_NoTimer ==
    /\ pc[SM] = "capturing"
    /\ \E c \in CapturesOf(SM) :
        /\ c.status = "rejected"
        /\ captures' = captures \ {c}
    /\ buttonsVisible' = TRUE
    /\ btnText' = [btnText EXCEPT ![SM] = Label("Failed", 0, 0)]
    /\ pc' = [pc EXCEPT ![SM] = "returned"]
    /\ UNCHANGED <<btnDisabled, originalText, segI, dlI, images, bodyTemp, downloads>>
    /\ UNCHANGED <<segVars, renderVars>>

\* catch (error) of saveAsMultipleImages: the temporary container stays
SMFailed ==
    /\ pc[SM] = "capturing"
    /\ \E c \in CapturesOf(SM) :
        /\ c.status = "rejected"
        /\ captures' = captures \ {c}
    /\ buttonsVisible' = TRUE
    /\ btnText' = [btnText EXCEPT ![SM] = Label("Failed", 0, 0)]
    /\ pc' = [pc EXCEPT ![SM] = "failedShown"]
    /\ UNCHANGED <<btnDisabled, originalText, segI, dlI, images, bodyTemp, downloads>>
    /\ UNCHANGED <<segVars, renderVars>>

\* the 2 s timer of either branch of saveAsMultipleImages
SMRestore ==
    /\ pc[SM] \in {"savedShown", "failedShown"}
    /\ btnText' = [btnText EXCEPT ![SM] = originalText[SM]]
    /\ btnDisabled' = [btnDisabled EXCEPT ![SM] = FALSE]
    /\ pc' = [pc EXCEPT ![SM] = "idle"]
    /\ UNCHANGED <<originalText, buttonsVisible, segI, dlI, images, captures,
                   bodyTemp, downloads>>
    /\ UNCHANGED <<segVars, renderVars>>

\* html2canvas, the capture collaborator, settles a promise of f either way
CaptureResolves(f) ==
    /\ \E c \in CapturesOf(f) :
        /\ c.status = "pending"
        /\ captures' = (captures \ {c}) \cup {[c EXCEPT !.status = "resolved"]}
    /\ UNCHANGED <<pc, btnText, btnDisabled, originalText, buttonsVisible, segI, dlI,
                   images, bodyTemp, downloads>>
    /\ UNCHANGED <<segVars, renderVars>>

CaptureRejects(f) ==
    /\ \E c \in CapturesOf(f) :
        /\ c.status = "pending"
        /\ captures' = (captures \ {c}) \cup {[c EXCEPT !.status = "rejected"]}
    /\ UNCHANGED <<pc, btnText, btnDisabled, originalText, buttonsVisible, segI, dlI,
                   images, bodyTemp, downloads>>
    /\ UNCHANGED <<segVars, renderVars>>

CaptureSettles(f) == CaptureResolves(f) \/ CaptureRejects(f)

ExportStep ==
    \/ SIHideButtons \/ SIStartCapture \/ SICaptured \/ SIFailed \/ SIRestore
    \/ SMStartCapture \/ SMCaptured \/ SMDownloadNext \/ SMFailed \/ SMRestore
    \/ \E f \in Fns : CaptureResolves(f)
    \/ \E f \in Fns : CaptureRejects(f)

ExportNext == SIClick \/ SMClick \/ ExportStep

SpecExport == ExportInit /\ [][ExportNext]_vars

\* Every timer fires, html2canvas settles every promise, and a settled promise
\* resumes the function awaiting it; only the clicks are up to the user.
FairSpecExport ==
    /\ ExportInit /\ [][ExportNext]_vars
    /\ WF_vars(SIHideButtons) /\ WF_vars(SIStartCapture) /\ WF_vars(SICaptured)
    /\ WF_vars(SIFailed) /\ WF_vars(SIRestore)
    /\ WF_vars(SMStartCapture) /\ WF_vars(SMCaptured) /\ WF_vars(SMDownloadNext)
    /\ WF_vars(SMFailed) /\ WF_vars(SMRestore)
    /\ \A f \in Fns : WF_vars(CaptureSettles(f))

-----------------------------------------------------------------------------
(* render_html_content: the region contents *)

\* A string is a sequence of pieces.  An opening tag with a class attribute is
\* the four pieces <div , class=", the class names, "> so that find('class="')
\* and the insertion after it are those of the code.
ClassAttr == "class=\""
DividerClass == "section-divider "

Open(cls) == <<"\n", "<div ", ClassAttr, cls, "\">">>
Close == <<"\n", "</div>">>

None == [none |-> TRUE]
Some(x) == [some |-> x]
IsNone(v) == "none" \in DOMAIN v

RECURSIVE Join(_)
\* the concatenation of a sequence of strings
Join(parts) == IF parts = <<>> THEN <<>> ELSE Head(parts) \o Join(Tail(parts))

RECURSIVE SumOf(_)
SumOf(ns) == IF ns = <<>> THEN 0 ELSE Head(ns) + SumOf(Tail(ns))

\* d.get(key, default): a dict is a function, a missing key is outside its
\* domain.  d.get(key) without a default gives None, which `or` and `if` treat
\* as they treat ""; it is written Get(d, key, "").
Get(d, key, default) == IF key \in DOMAIN d THEN d[key] ELSE default

\* one item of a feed of the standalone section, as far as the assembly of the
\* regions needs it
EntryHtml(cls, e) == Open(cls) \o <<Get(e, "title", "")>> \o Close

\* <div class="cls modifier">
OpenWith(cls, modifier) == <<"\n", "<div ", ClassAttr, cls, " ", modifier, "\">">>

\* <span class="cls modifier">body</span>
Span(cls, modifier, body) ==
    <<"<span ", ClassAttr, cls, " ", modifier, "\">">> \o body \o <<"</span>">>

\* html_escape of trendradar.report.helpers, on the strings of the model: the
\* one string with a special character is escaped, the others have none
html_escape(str) == IF str = "a&b" THEN "a&amp;b" ELSE str

\* convert_time_for_display of trendradar.utils.time: HH-MM becomes HH:MM
convert_time_for_display(t) ==
    CASE t = "08-00" -> "08:00"
      [] t = "12-30" -> "12:30"
      [] OTHER -> t

\* a or b of Python on two strings
OrElse(a, b) == IF a # "" THEN a ELSE b

Range(q) == {q[k] : k \in 1..Len(q)}
\* min(ranks) and max(ranks)
MinOf(ranks) == CHOOSE x \in Range(ranks) : \A y \in Range(ranks) : x <= y
MaxOf(ranks) == CHOOSE x \in Range(ranks) : \A y \in Range(ranks) : x >= y

\* title_data.get("rank_threshold", 10)
RankThresholdOf(title_data) ==
    IF IsNone(title_data.rank_threshold) THEN 10 ELSE title_data.rank_threshold.some

\* if min_rank <= 3: "top" elif min_rank <= rank_threshold: "high" else: ""
RankClass(min_rank, rank_threshold) ==
    IF min_rank <= 3 THEN "top"
    ELSE IF min_rank <= rank_threshold THEN "high"
    ELSE ""

\* str(min_rank) if min_rank == max_rank else f"{min_rank}-{max_rank}"
RankText(ranks) ==
    IF MinOf(ranks) = MaxOf(ranks) THEN <<ToString(MinOf(ranks))>>
    ELSE <<ToString(MinOf(ranks)), "-", ToString(MaxOf(ranks))>>

\* str(ranks[0]) if len(ranks) == 1 else f"{min(ranks)}-{max(ranks)}"
NewItemRankText(ranks) ==
    IF Len(ranks) = 1 THEN <<ToString(ranks[1])>>
    ELSE <<ToString(MinOf(ranks)), "-", ToString(MaxOf(ranks))>>

\* time_display.replace(" ~ ", "~").replace("[", "").replace("]", ""), on a
\* time_display given as the sequence of its tokens
SimplifyTime(time_display) ==
    LET keep == SelectSeq(time_display, LAMBDA tok : tok \notin {"[", "]"})
    IN  [k \in 1..Len(keep) |-> IF keep[k] = " ~ " THEN "~" ELSE keep[k]]

\* <a href="..." target="_blank" class="news-link">title</a>, or the title alone
TitleOrLink(cls, link_url, title) ==
    IF link_url # ""
    THEN <<"<a href=\"", html_escape(link_url), "\" target=\"_blank\" ",
           ClassAttr, cls, "\">", html_escape(title), "</a>">>
    ELSE <<html_escape(title)>>

\* DisplayLabel with the source name shown in both modes.
DisplayLabel_SourceAlways(title_data, display_mode) ==
    Span("source-name", "", <<html_escape(title_data.source_name)>>)
        \o (IF display_mode # "keyword" /\ title_data.matched_keyword # ""
            THEN Span("keyword-tag", "",
                      <<"[", html_escape(title_data.matched_keyword), "]">>)
            ELSE <<>>)

\* if display_mode == "keyword": the source name; else: the matched keyword
DisplayLabel(title_data, display_mode) ==
    IF display_mode = "keyword"
    THEN Span("source-name", "", <<html_escape(title_data.source_name)>>)
    ELSE IF title_data.matched_keyword # ""
    THEN Span("keyword-tag", "",
              <<"[", html_escape(title_data.matched_keyword), "]">>)
    ELSE <<>>

\* a news-item of a word group: for j, title_data in enumerate(stat["titles"], 1)
HotlistItemHtml(j, title_data, display_mode) ==
    LET ranks == title_data.ranks
        label == DisplayLabel(title_data, display_mode)
        rank ==
            IF ranks # <<>>
            THEN Span("rank-num", RankClass(MinOf(ranks), RankThresholdOf(title_data)),
                      RankText(ranks))
            ELSE <<>>
        time ==
            IF title_data.time_display # <<>>
            THEN Span("time-info", "",
                      [k \in 1..Len(SimplifyTime(title_data.time_display)) |->
                          html_escape(SimplifyTime(title_data.time_display)[k])])
            ELSE <<>>
        count ==
            IF title_data.count > 1
            THEN Span("count-info", "", <<ToString(title_data.count), "times">>)
            ELSE <<>>
    IN  OpenWith("news-item", IF title_data.is_new THEN "new" ELSE "")
            \o Open("news-number") \o <<ToString(j)>> \o Close
            \o Open("news-content") \o Open("news-header")
            \o label \o rank \o time \o count
            \o Close \o Open("news-title")
            \o TitleOrLink("news-link",
                           OrElse(Get(title_data, "mobile_url", ""),
                                  Get(title_data, "url", "")),
                           title_data.title)
            \o Close \o Close \o Close

\* a new-item of the new-section: for idx, title_data in enumerate(titles, 1)
NewItemHtml(idx, title_data) ==
    LET ranks == title_data.ranks
        rank_class ==
            IF ranks # <<>>
            THEN IF MinOf(ranks) <= 3 THEN "top"
                 ELSE IF MinOf(ranks) <= RankThresholdOf(title_data) THEN "high"
                 ELSE ""
            ELSE ""
        rank_text == IF ranks # <<>> THEN NewItemRankText(ranks) ELSE <<"?">>
    IN  Open("new-item")
            \o Open("new-item-number") \o <<ToString(idx)>> \o Close
            \o OpenWith("new-item-rank", rank_class) \o rank_text \o Close
            \o Open("new-item-content") \o Open("new-item-title")
            \o TitleOrLink("news-link",
                           OrElse(Get(title_data, "mobile_url", ""),
                                  Get(title_data, "url", "")),
                           title_data.title)
            \o Close \o Close \o Close

\* a news-item of a platform of the standalone section
StandaloneItemHtml(j, item) ==
    LET ranks == item.ranks
        rank ==
            IF ranks # <<>>
            THEN Span("rank-num", RankClass(MinOf(ranks), 10), RankText(ranks))
            ELSE IF item.rank > 0
            THEN Span("rank-num", RankClass(item.rank, 10), <<ToString(item.rank)>>)
            ELSE <<>>
        time ==
            IF item.first_time # "" /\ item.last_time # ""
                   /\ item.first_time # item.last_time
            THEN Span("time-info", "",
                      <<html_escape(convert_time_for_display(item.first_time)), "~",
                        html_escape(convert_time_for_display(item.last_time))>>)
            ELSE IF item.first_time # ""
            THEN Span("time-info", "",
                      <<html_escape(convert_time_for_display(item.first_time))>>)
            ELSE <<>>
        count ==
            IF item.count > 1
            THEN Span("count-info", "", <<ToString(item.count), "times">>)
            ELSE <<>>
    IN  Open("news-item")
            \o Open("news-number") \o <<ToString(j)>> \o Close
            \o Open("news-content") \o Open("news-header")
            \o rank \o time \o count
            \o Close \o Open("news-title")
            \o TitleOrLink("news-link",
                           OrElse(Get(item, "url", ""), Get(item, "mobileUrl", "")),
                           Get(item, "title", ""))
            \o Close \o Close \o Close

\* an rss-item of a feed-group: for title_data in titles
RssItemHtml(title_data) ==
    LET item_title == Get(title_data, "title", "")
        url == Get(title_data, "url", "")
        time_display == Get(title_data, "time_display", <<>>)
        source_name == Get(title_data, "source_name", "")
        is_new == Get(title_data, "is_new", FALSE)
    IN  Open("rss-item") \o Open("rss-meta")
            \o (IF time_display # <<>>
                THEN Span("rss-time", "",
                          [k \in 1..Len(time_display) |-> html_escape(time_display[k])])
                ELSE <<>>)
            \o (IF source_name # ""
                THEN Span("rss-author", "", <<html_escape(source_name)>>)
                ELSE <<>>)
            \o (IF is_new THEN Span("rss-author", "", <<"NEW">>) ELSE <<>>)
            \o Close \o Open("rss-title")
            \o TitleOrLink("rss-link", url, item_title)
            \o Close \o Close

\* the keys of title_data the code subscripts, in the order it reads them:
\* title_data["source_name"] in display mode keyword, title_data["title"]
HotlistSubscripts(display_mode) ==
    IF display_mode = "keyword" THEN <<"source_name", "title">> ELSE <<"title">>

NewItemSubscripts == <<"title">>

\* the subscripts of d that raise KeyError, in the order they are read
MissingKeys(d, keys) == SelectSeq(keys, LAMBDA k : k \notin DOMAIN d)

\* <div class="error-section"> ... </div> when failed_ids is not empty
ErrorHtml(failed_ids) ==
    IF failed_ids # <<>>
    THEN Open("error-section")
             \o Join([k \in 1..Len(failed_ids) |-> <<"<li>", failed_ids[k], "</li>">>])
             \o Close
    ELSE <<>>

\* stats_html: one word-group per stat, wrapped in hotlist-section
StatsHtml(stats, display_mode) ==
    LET group(stat) ==
            Open("word-group") \o Open("word-header") \o <<html_escape(stat.word)>>
                \o Close
                \o Join([j \in 1..Len(stat.titles) |->
                            HotlistItemHtml(j, stat.titles[j], display_mode)])
                \o Close
        inner == IF stats # <<>>
                 THEN Join([i \in 1..Len(stats) |-> group(stats[i])])
                 ELSE <<>>
    IN  IF inner # <<>> THEN Open("hotlist-section") \o inner \o Close ELSE <<>>

\* new_titles_html: the new-section, when it is shown and there are new titles
NewTitlesHtml(show_new_section, new_titles) ==
    IF show_new_section /\ new_titles # <<>>
    THEN Open("new-section") \o Open("new-section-title") \o Close
             \o Join([i \in 1..Len(new_titles) |->
                        Open("new-source-group")
                            \o Join([j \in 1..Len(new_titles[i].titles) |->
                                        NewItemHtml(j, new_titles[i].titles[j])])
                            \o Close])
             \o Close
    ELSE <<>>

\* render_rss_stats_html(rss_items, title) if rss_items else ""
\* the titles of the two rss sections
RssTitle == "RSS updates"
RssNewTitle == "RSS new"

RssStatsHtml(items, title) ==
    IF IsNone(items) \/ items = Some(<<>>) THEN <<>>
    ELSE LET stats == items.some
             total_count == SumOf([i \in 1..Len(stats) |-> stats[i].count])
             group(stat) ==
                 IF stat.titles = <<>> THEN <<>>
                 ELSE Open("feed-group") \o Open("feed-header") \o <<stat.word>> \o Close
                          \o Join([j \in 1..Len(stat.titles) |->
                                      RssItemHtml(stat.titles[j])])
                          \o Close
         IN  IF total_count = 0 THEN <<>>
             ELSE Open("rss-section") \o Open("rss-section-header") \o <<title>>
                      \o Close
                      \o Join([i \in 1..Len(stats) |-> group(stats[i])])
                      \o Close

\* render_standalone_html(standalone_data)
StandaloneHtml(data) ==
    IF IsNone(data) THEN <<>>
    ELSE LET platforms == data.some.platforms
             rss_feeds == data.some.rss_feeds
             total_count ==
                 SumOf([i \in 1..Len(platforms) |-> Len(platforms[i].items)])
                     + SumOf([i \in 1..Len(rss_feeds) |-> Len(rss_feeds[i].items)])
             platform_group(g) ==
                 IF g.items = <<>> THEN <<>>
                 ELSE Open("standalone-group") \o Open("standalone-header")
                          \o <<html_escape(g.name)>> \o Close
                          \o Join([j \in 1..Len(g.items) |->
                                      StandaloneItemHtml(j, g.items[j])])
                          \o Close
             feed_group(g) ==
                 IF g.items = <<>> THEN <<>>
                 ELSE Open("standalone-group") \o Open("standalone-header")
                          \o <<html_escape(g.name)>> \o Close
                          \o Join([j \in 1..Len(g.items) |->
                                      EntryHtml("news-item", g.items[j])])
                          \o Close
         IN  IF platforms = <<>> /\ rss_feeds = <<>> THEN <<>>
             ELSE IF total_count = 0 THEN <<>>
             ELSE Open("standalone-section") \o Open("standalone-section-header")
                      \o Close
                      \o Join([i \in 1..Len(platforms) |-> platform_group(platforms[i])])
                      \o Join([i \in 1..Len(rss_feeds) |-> feed_group(rss_feeds[i])])
                      \o Close

\* render_ai_analysis_html_rich(ai_analysis) if ai_analysis else "": the
\* formatter is another module; its block is taken to be one container with a
\* class, like the other regions.
AiHtml(ai_analysis) ==
    IF IsNone(ai_analysis) THEN <<>>
    ELSE Open("ai-section") \o <<ai_analysis.some>> \o Close

-----------------------------------------------------------------------------
(* render_html_content: the assembly in region_order *)

RECURSIVE FirstIndex(_, _, _)
\* content.find(piece), from position k; 0 when it is not there
FirstIndex(content, piece, k) ==
    IF k > Len(content) THEN 0
    ELSE IF content[k] = piece THEN k
    ELSE FirstIndex(content, piece, k + 1)

\* def add_section_divider(content)
add_section_divider(content) ==
    LET first_class_pos == FirstIndex(content, ClassAttr, 1)
    IN  IF content = <<>> \/ first_class_pos = 0 THEN content
        ELSE SubSeq(content, 1, first_class_pos) \o <<DividerClass>>
                 \o SubSeq(content, first_class_pos + 1, Len(content))

KnownRegions == {"hotlist", "rss", "new_items", "standalone", "ai_analysis"}

default_region_order == <<"hotlist", "rss", "new_items", "standalone", "ai_analysis">>

\* region_contents with the two parts of new_items joined into one string.
region_contents_NewItemsJoined(a) ==
    [hotlist     |-> <<StatsHtml(a.stats, a.display_mode)>>,
     rss         |-> <<RssStatsHtml(a.rss_items, RssTitle)>>,
     new_items   |-> <<NewTitlesHtml(a.show_new_section, a.new_titles)
                           \o RssStatsHtml(a.rss_new_items, RssNewTitle)>>,
     standalone  |-> <<StandaloneHtml(a.standalone_data)>>,
     ai_analysis |-> <<AiHtml(a.ai_analysis)>>]

\* region_contents: every value is the sequence of the strings the loop emits
\* one after the other; new_items is the pair, every other region one string
region_contents(a) ==
    [hotlist     |-> <<StatsHtml(a.stats, a.display_mode)>>,
     rss         |-> <<RssStatsHtml(a.rss_items, RssTitle)>>,
     new_items   |-> <<NewTitlesHtml(a.show_new_section, a.new_titles),
                       RssStatsHtml(a.rss_new_items, RssNewTitle)>>,
     standalone  |-> <<StandaloneHtml(a.standalone_data)>>,
     ai_analysis |-> <<AiHtml(a.ai_analysis)>>]

\* EmitContent with the divider added whether or not content came before.
EmitContent_AlwaysDivider(st, content) ==
    IF content # <<>>
    THEN [html |-> st.html \o add_section_divider(content),
          has_previous_content |-> TRUE]
    ELSE st

\* if content: [if has_previous_content: add the divider]; html += content;
\* has_previous_content = True
EmitContent(st, content) ==
    IF content # <<>>
    THEN [html |-> st.html \o (IF st.has_previous_content
                               THEN add_section_divider(content)
                               ELSE content),
          has_previous_content |-> TRUE]
    ELSE st

RECURSIVE EmitAll(_, _)
EmitAll(st, contents) ==
    IF contents = <<>> THEN st
    ELSE EmitAll(EmitContent(st, Head(contents)), Tail(contents))

RECURSIVE AssembleRegions(_, _, _)
\* for region in region_order: content = region_contents.get(region, "")
AssembleRegions(st, order, contents) ==
    IF order = <<>> THEN st
    ELSE LET region == Head(order)
             content == IF region \in DOMAIN contents THEN contents[region]
                        ELSE <<>>
         IN  AssembleRegions(EmitAll(st, content), Tail(order), contents)

\* strftime with the seconds in the format.
strftime_WithSeconds(now) ==
    "01-01 00:0" \o ToString(now \div TicksPerMinute)
        \o ":" \o ToString(now % TicksPerMinute)

\* now.strftime("%m-%d %H:%M") of a clock that starts at 01-01 00:00
strftime(now) == "01-01 00:0" \o ToString(now \div TicksPerMinute)

\* the header: the save buttons and the header-info, whose last item is the
\* generation time read from get_time_func() or datetime.now()
HeaderHtml ==
    LET now == clock
    IN  Open("container") \o Open("header") \o Open("save-buttons") \o Close
            \o <<"header-info", strftime(now)>> \o Close \o Open("content")

FooterHtml == Close \o Open("footer") \o Open("footer-content") \o Close \o Close \o Close

\* render_html_content with the footer appended like one more region.
render_html_content_FooterAsRegion(a) ==
    LET order == IF IsNone(a.region_order) THEN default_region_order
                 ELSE a.region_order.some
        start == [html |-> HeaderHtml \o ErrorHtml(a.failed_ids),
                  has_previous_content |-> FALSE]
    IN  EmitContent(AssembleRegions(start, order, region_contents(a)), FooterHtml).html

\* render_html_content with the regions always in the default order.
render_html_content_DefaultOrder(a) ==
    LET start == [html |-> HeaderHtml \o ErrorHtml(a.failed_ids),
                  has_previous_content |-> FALSE]
    IN  AssembleRegions(start, default_region_order, region_contents(a)).html
            \o FooterHtml

\* render_html_content with the error section taken for previous content.
render_html_content_ErrorCounts(a) ==
    LET order == IF IsNone(a.region_order) THEN default_region_order
                 ELSE a.region_order.some
        start == [html |-> HeaderHtml \o ErrorHtml(a.failed_ids),
                  has_previous_content |-> a.failed_ids # <<>>]
    IN  AssembleRegions(start, order, region_contents(a)).html \o FooterHtml

\* the KeyError that ends the call: the first subscript of an entry of the
\* hotlist, then of the new titles, whose key the entry does not have; "" when
\* the call returns
KeyError(a) ==
    LET of_stats ==
            Join([i \in 1..Len(a.stats) |->
                    Join([j \in 1..Len(a.stats[i].titles) |->
                            MissingKeys(a.stats[i].titles[j],
                                        HotlistSubscripts(a.display_mode))])])
        of_new ==
            IF a.show_new_section /\ a.new_titles # <<>>
            THEN Join([i \in 1..Len(a.new_titles) |->
                         Join([j \in 1..Len(a.new_titles[i].titles) |->
                                 MissingKeys(a.new_titles[i].titles[j],
                                             NewItemSubscripts)])])
            ELSE <<>>
        all == of_stats \o of_new
    IN  IF all = <<>> THEN "" ELSE Head(all)

\* def render_html_content(report_data, ..., region_order=None, ...)
render_html_content(a) ==
    LET order == IF IsNone(a.region_order) THEN default_region_order
                 ELSE a.region_order.some
        start == [html |-> HeaderHtml \o ErrorHtml(a.failed_ids),
                  has_previous_content |-> FALSE]
    IN  AssembleRegions(start, order, region_contents(a)).html \o FooterHtml

-----------------------------------------------------------------------------
(* The report rendered for every combination of region contents *)

\* an entry with its title and its source name, every optional field absent
Entry(t) ==
    [title |-> t, source_name |-> "src", matched_keyword |-> "", ranks |-> <<>>,
     rank_threshold |-> None, time_display |-> <<>>, count |-> 1, url |-> "",
     mobile_url |-> "", mobileUrl |-> "", is_new |-> FALSE, rank |-> 0,
     first_time |-> "", last_time |-> ""]

StatsChoices ==
    { <<>>,
      <<[word |-> "w", count |-> 0, titles |-> <<>>]>>,
      <<[word |-> "w", count |-> 1, titles |-> <<Entry("t")>>]>> }

NewTitlesChoices ==
    { <<>>, <<[source_name |-> "s", titles |-> <<Entry("n")>>]>> }

RssChoices ==
    { None,
      Some(<<[word |-> "w", count |-> 0, titles |-> <<>>]>>),
      Some(<<[word |-> "w", count |-> 1, titles |-> <<Entry("r")>>]>>) }

RssNewChoices ==
    { None, Some(<<[word |-> "w", count |-> 1, titles |-> <<Entry("rn")>>]>>) }

StandaloneChoices ==
    { None,
      Some([platforms |-> <<[name |-> "p", items |-> <<>>]>>, rss_feeds |-> <<>>]),
      Some([platforms |-> <<[name |-> "p", items |-> <<Entry("i")>>]>>,
            rss_feeds |-> <<>>]) }

AiChoices == { None, Some("ai-result") }

FailedChoices == { <<>>, <<"zhihu">> }

RECURSIVE Injective(_)
Injective(q) ==
    \/ q = <<>>
    \/ /\ \A k \in 2..Len(q) : q[k] # Head(q)
       /\ Injective(Tail(q))

\* orders of three and of all five kinds, an unknown kind among them
LongOrders ==
    { <<"standalone", "unknown", "hotlist">>,
      <<"new_items", "rss", "hotlist">>,
      <<"ai_analysis", "standalone", "new_items", "rss", "hotlist">> }

\* region_order: None, or kinds without duplicates, unknown kinds among them
RegionOrders ==
    { None } \cup
    { Some(q) : q \in LongOrders \cup
                      { o \in UNION { [1..n -> KnownRegions \cup {"unknown"}] :
                                        n \in 0..MaxOrderLen } : Injective(o) } }

RenderInit ==
    /\ \E ro \in RegionOrders, st \in StatsChoices, nt \in NewTitlesChoices,
          rs \in RssChoices, rn \in RssNewChoices, sd \in StandaloneChoices,
          ai \in AiChoices, fi \in FailedChoices, sh \in BOOLEAN :
        /\ (nt = <<>> => sh)
        /\ args = [region_order |-> ro, stats |-> st, new_titles |-> nt,
                   failed_ids |-> fi, rss_items |-> rs, rss_new_items |-> rn,
                   standalone_data |-> sd, ai_analysis |-> ai,
                   show_new_section |-> sh, display_mode |-> "keyword"]
    /\ html = <<>>
    /\ clock = 0
    /\ calls = <<>>
    /\ raised = ""
    /\ layout = <<>>
    /\ maxHeight = 0
    /\ elements = <<>>
    /\ segments = <<>>
    /\ PageLoaded

\* what a call of render_html_content leaves: the string it returns and the
\* time it has read, or the KeyError it raises
Call ==
    IF KeyError(args) # ""
    THEN /\ raised' = KeyError(args)
         /\ UNCHANGED <<html, calls>>
    ELSE /\ html' = render_html_content(args)
         /\ calls' = Append(calls, [at |-> clock, out |-> html'])
         /\ UNCHANGED raised

\* the call of render_html_content
Render ==
    /\ calls = <<>> /\ raised = ""
    /\ Call
    /\ UNCHANGED <<args, clock, segVars, exportVars>>

\* a second call with the same arguments
RenderAgain ==
    /\ Len(calls) = 1
    /\ Call
    /\ UNCHANGED <<args, clock, segVars, exportVars>>

\* time passes
Tick ==
    /\ clock < MaxClock
    /\ clock' = clock + 1
    /\ UNCHANGED <<args, html, calls, raised, segVars, exportVars>>

RenderNext == Render

SpecRender == RenderInit /\ [][RenderNext]_vars

-----------------------------------------------------------------------------
(* The report rendered for one entry with every combination of its fields *)

\* the ranks around the limits of the tiers: 3, and the thresholds 5, 10, 20
RankValues == {1, 3, 4, 5, 6, 10, 11, 20, 21, 1000}

RankLists == UNION { [1..n -> RankValues] : n \in 0..MaxRanksLen }

\* rank_threshold: absent, or one of the thresholds in use
RankThresholds == { None, Some(5), Some(10), Some(20) }

\* first_time and last_time: absent, or HH-MM
ClockTimes == { "", "08-00", "12-30" }

ItemKinds == { "hotlist", "new_items", "standalone" }

\* url, and the mobile url (mobile_url or mobileUrl): empty or present
Urls == { "", "https://host/page" }
MobileUrls == { "", "https://m.host/page" }

\* the arguments of a report whose one entry is `item`, in the region `kind`
ItemArgs(kind, item, dm) ==
    [region_order |-> None,
     stats |-> IF kind = "hotlist"
               THEN <<[word |-> "w", count |-> 1, titles |-> <<item>>]>> ELSE <<>>,
     new_titles |-> IF kind = "new_items"
                    THEN <<[source_name |-> "s", titles |-> <<item>>]>> ELSE <<>>,
     failed_ids |-> <<>>,
     rss_items |-> IF kind = "rss"
                   THEN Some(<<[word |-> "w", count |-> 1, titles |-> <<item>>]>>)
                   ELSE None,
     rss_new_items |-> None,
     standalone_data |-> IF kind = "standalone"
                         THEN Some([platforms |-> <<[name |-> "p", items |-> <<item>>]>>,
                                    rss_feeds |-> <<>>])
                         ELSE None,
     ai_analysis |-> None, show_new_section |-> TRUE, display_mode |-> dm]

ItemInit ==
    /\ \E kind \in ItemKinds, ranks \in RankLists, thr \in RankThresholds,
          dm \in {"keyword", "platform"}, kw \in {"", "kw"},
          ft \in ClockTimes, lt \in ClockTimes,
          url \in Urls, mobile \in MobileUrls :
        /\ kind # "hotlist" => (dm = "keyword" /\ kw = "")
        /\ kind # "standalone" => (ft = "" /\ lt = "")
        /\ args = ItemArgs(kind,
                           [Entry("t") EXCEPT !.ranks = ranks, !.rank_threshold = thr,
                                              !.matched_keyword = kw,
                                              !.first_time = ft, !.last_time = lt,
                                              !.url = url, !.mobile_url = mobile,
                                              !.mobileUrl = mobile],
                           dm)
    /\ html = <<>>
    /\ clock = 0
    /\ calls = <<>>
    /\ raised = ""
    /\ layout = <<>>
    /\ maxHeight = 0
    /\ elements = <<>>
    /\ segments = <<>>
    /\ PageLoaded

SpecItem == ItemInit /\ [][RenderNext]_vars

-----------------------------------------------------------------------------
(* The report rendered for one entry that lacks some of its keys *)

\* the keys an entry may come without
OptionalKeys == { "title", "url", "mobile_url", "mobileUrl", "source_name" }

\* the dict d without the keys ks
Without(d, ks) == [k \in DOMAIN d \ ks |-> d[k]]

MissingInit ==
    /\ \E kind \in ItemKinds \cup {"rss"}, dm \in {"keyword", "platform"},
          url \in Urls, absent \in SUBSET OptionalKeys :
        /\ kind # "hotlist" => dm = "keyword"
        /\ args = ItemArgs(kind,
                           Without([Entry("t") EXCEPT !.url = url], absent),
                           dm)
    /\ html = <<>>
    /\ clock = 0
    /\ calls = <<>>
    /\ raised = ""
    /\ layout = <<>>
    /\ maxHeight = 0
    /\ elements = <<>>
    /\ segments = <<>>
    /\ PageLoaded

SpecMissing == MissingInit /\ [][RenderNext]_vars

-----------------------------------------------------------------------------
(* The report rendered twice while the clock runs *)

RepeatInit ==
    /\ \E st \in StatsChoices, nt \in NewTitlesChoices, rs \in RssChoices,
          sd \in StandaloneChoices, fi \in FailedChoices :
        args = [region_order |-> None, stats |-> st, new_titles |-> nt,
                failed_ids |-> fi, rss_items |-> rs, rss_new_items |-> None,
                standalone_data |-> sd, ai_analysis |-> None,
                show_new_section |-> TRUE, display_mode |-> "keyword"]
    /\ html = <<>>
    /\ clock = 0
    /\ calls = <<>>
    /\ raised = ""
    /\ layout = <<>>
    /\ maxHeight = 0
    /\ elements = <<>>
    /\ segments = <<>>
    /\ PageLoaded

RepeatNext == Render \/ Tick \/ RenderAgain

SpecRepeat == RepeatInit /\ [][RepeatNext]_vars

-----------------------------------------------------------------------------
(* Properties of the rendered report *)

Rendered == html # <<>>

\* the classes of the outermost containers of the regions
RegionClasses ==
    {"hotlist-section", "rss-section", "new-section", "standalone-section",
     "ai-section"}

Positions(h, S) == {p \in 1..Len(h) : h[p] \in S}

\* the strings of the regions of region_order, in that order
OrderedContents(a) ==
    LET order == IF IsNone(a.region_order) THEN default_region_order
                 ELSE a.region_order.some
        contents == region_contents(a)
    IN  Join([k \in 1..Len(order) |->
                IF order[k] \in DOMAIN contents THEN contents[order[k]] ELSE <<>>])

\* the number of regions of region_order that produced content
NonEmptyRegionCount(a) ==
    Cardinality({k \in 1..Len(OrderedContents(a)) : OrderedContents(a)[k] # <<>>})

\* C5: the document holds max(0, n - 1) divider markers, n being the number of
\* regions that produced content: every such region is in the document once,
\* the first of them without a divider, every later one with one divider on
\* the class attribute of its outermost container, and there is no divider
\* anywhere else.
C5_DividersBetweenRegions ==
    Rendered =>
        LET regs == Positions(html, RegionClasses)
            divs == Positions(html, {DividerClass})
            n == NonEmptyRegionCount(args)
        IN  /\ Cardinality(regs) = n
            /\ Cardinality(divs) = IF n = 0 THEN 0 ELSE n - 1
            /\ \A p \in regs :
                   IF \A q \in regs : p <= q
                   THEN html[p - 1] = ClassAttr
                   ELSE html[p - 1] = DividerClass /\ html[p - 2] = ClassAttr
            /\ \A d \in divs : html[d + 1] \in RegionClasses

\* the default order with the hotlist, no rss region, and both parts of new_items
C5_Witness ==
    /\ Rendered
    /\ IsNone(args.region_order)
    /\ StatsHtml(args.stats, args.display_mode) # <<>>
    /\ IsNone(args.rss_items)
    /\ NewTitlesHtml(args.show_new_section, args.new_titles) # <<>>
    /\ RssStatsHtml(args.rss_new_items, RssNewTitle) # <<>>
    /\ Cardinality(Positions(html, {DividerClass})) = 2

\* some group of the collection has an entry
HasEntries(groups, field) == \E i \in 1..Len(groups) : groups[i][field] # <<>>

\* the region kinds of region_order, each new_items as its two parts
RECURSIVE OrderedParts(_)
OrderedParts(order) ==
    IF order = <<>> THEN <<>>
    ELSE (IF Head(order) = "new_items" THEN <<"new_titles", "rss_new_items">>
          ELSE IF Head(order) \in KnownRegions THEN <<Head(order)>>
          ELSE <<>>) \o OrderedParts(Tail(order))

\* the source collection of a region part holds at least one entry
PartHasEntries(a, part) ==
    CASE part = "hotlist" -> HasEntries(a.stats, "titles")
      [] part = "rss" -> ~IsNone(a.rss_items) /\ HasEntries(a.rss_items.some, "titles")
      [] part = "new_titles" -> HasEntries(a.new_titles, "titles")
      [] part = "rss_new_items" ->
             ~IsNone(a.rss_new_items) /\ HasEntries(a.rss_new_items.some, "titles")
      [] part = "standalone" ->
             /\ ~IsNone(a.standalone_data)
             /\ \/ HasEntries(a.standalone_data.some.platforms, "items")
                \/ HasEntries(a.standalone_data.some.rss_feeds, "items")
      [] OTHER -> FALSE

\* the outermost class of the markup of a region part
PartClass(part) ==
    CASE part = "hotlist" -> "hotlist-section"
      [] part = "rss" -> "rss-section"
      [] part = "new_titles" -> "new-section"
      [] part = "rss_new_items" -> "rss-section"
      [] part = "standalone" -> "standalone-section"
      [] OTHER -> "ai-section"

\* C13 (as claimed): a region whose source collection is absent, empty or made
\* of groups without entries produces no markup and is no previous content
\* for the dividers: the document holds the sections of a class at most as
\* often as region_order names a part of that class that has entries, and a
\* document in which no region but the ai block has entries holds no divider.
C13_EmptyRegionNotEmitted ==
    Rendered =>
        LET order == IF IsNone(args.region_order) THEN default_region_order
                     ELSE args.region_order.some
            parts == OrderedParts(order)
            live(cls) == {k \in 1..Len(parts) :
                            PartClass(parts[k]) = cls /\ PartHasEntries(args, parts[k])}
        IN  /\ \A cls \in RegionClasses \ {"ai-section"} :
                   Cardinality(Positions(html, {cls})) <= Cardinality(live(cls))
            /\ (\A k \in 1..Len(parts) : ~PartHasEntries(args, parts[k]))
                   => Positions(html, {DividerClass}) = {}

\* C14: when failed_ids is not empty the document holds the error section
\* once, without a divider, before every region whatever region_order is; the
\* first region after it carries no divider; and when no region produced
\* content the document is the page header, the error section and the footer,
\* with no divider.  Without failed ids there is no error section.
C14_ErrorBlockFirst ==
    Rendered =>
        LET errs == Positions(html, {"error-section"})
            regs == Positions(html, RegionClasses)
        IN  IF args.failed_ids = <<>> THEN errs = {}
            ELSE /\ Cardinality(errs) = 1
                 /\ \A e \in errs :
                        /\ html[e - 1] = ClassAttr
                        /\ \A p \in regs : e < p
                        /\ \A k \in 1..Len(args.failed_ids) :
                               \E q \in (e + 1)..Len(html) : html[q] = args.failed_ids[k]
                 /\ \A p \in regs : (\A q \in regs : p <= q) => html[p - 1] = ClassAttr
                 /\ (NonEmptyRegionCount(args) = 0 =>
                        /\ html = HeaderHtml \o ErrorHtml(args.failed_ids) \o FooterHtml
                        /\ Positions(html, {DividerClass}) = {})

\* a failed id, and two regions in an order that is not the default one
C14_Witness ==
    /\ Rendered
    /\ args.failed_ids = <<"zhihu">>
    /\ ~IsNone(args.region_order)
    /\ NonEmptyRegionCount(args) = 2
    /\ Cardinality(Positions(html, {DividerClass})) = 1

\* the markup of a region part, as the functions of the regions return it
PartContent(a, part) ==
    CASE part = "hotlist" -> StatsHtml(a.stats, a.display_mode)
      [] part = "rss" -> RssStatsHtml(a.rss_items, RssTitle)
      [] part = "new_titles" -> NewTitlesHtml(a.show_new_section, a.new_titles)
      [] part = "rss_new_items" -> RssStatsHtml(a.rss_new_items, RssNewTitle)
      [] part = "standalone" -> StandaloneHtml(a.standalone_data)
      [] OTHER -> AiHtml(a.ai_analysis)

\* the classes of the region containers of the document, in document order
EmittedClasses(h) ==
    LET regs == Positions(h, RegionClasses)
        nth(k) == CHOOSE p \in regs : Cardinality({q \in regs : q <= p}) = k
    IN  [k \in 1..Cardinality(regs) |-> h[nth(k)]]

RECURSIVE ExpectedClasses(_, _)
\* the classes of the parts that have content, in the order of `parts`
ExpectedClasses(a, parts) ==
    IF parts = <<>> THEN <<>>
    ELSE (IF PartContent(a, Head(parts)) # <<>> THEN <<PartClass(Head(parts))>>
          ELSE <<>>) \o ExpectedClasses(a, Tail(parts))

\* C15: the regions of the document are exactly the kinds of region_order that
\* are known and have content, in the order region_order gives them (the two
\* parts of new_items in their fixed order); unknown kinds and kinds without
\* data add nothing, and the document is produced all the same.
C15_RegionsInOrder ==
    Rendered =>
        LET order == IF IsNone(args.region_order) THEN default_region_order
                     ELSE args.region_order.some
        IN  EmittedClasses(html) = ExpectedClasses(args, OrderedParts(order))

\* an order that names an unknown kind and puts standalone before the hotlist
C15_Witness ==
    /\ Rendered
    /\ ~IsNone(args.region_order)
    /\ \E k \in 1..Len(args.region_order.some) : args.region_order.some[k] = "unknown"
    /\ EmittedClasses(html) = <<"standalone-section", "hotlist-section">>

FeedDeltaPositions(h) ==
    {p \in Positions(h, {"rss-section"}) : h[p + 7] = RssNewTitle}

\* the container whose class is at position p carries the divider
HasDivider(h, p) == h[p - 1] = DividerClass

\* C27: when region_order names new_items, its two parts are two emission
\* steps in the order hotlist delta, feed delta: each is in the document iff
\* its own markup is not empty, and each carries a divider iff a region
\* container, the other part included, stands before it in the document.
C27_NewItemsTwoSteps ==
    LET order == IF IsNone(args.region_order) THEN default_region_order
                 ELSE args.region_order.some
        news == Positions(html, {"new-section"})
        feeds == FeedDeltaPositions(html)
        regs == Positions(html, RegionClasses)
    IN  (Rendered /\ "new_items" \in Range(order)) =>
            /\ Cardinality(news) =
                   IF NewTitlesHtml(args.show_new_section, args.new_titles) # <<>>
                   THEN 1 ELSE 0
            /\ Cardinality(feeds) =
                   IF RssStatsHtml(args.rss_new_items, RssNewTitle) # <<>> THEN 1 ELSE 0
            /\ \A n \in news : \A f \in feeds : n < f
            /\ \A p \in news \cup feeds :
                   HasDivider(html, p) <=> \E q \in regs : q < p

\* both parts have content and nothing stands before them: the feed delta
\* carries the divider and the hotlist delta does not
C27_Witness ==
    /\ Rendered
    /\ \E n \in Positions(html, {"new-section"}) :
           /\ ~HasDivider(html, n)
           /\ \A q \in Positions(html, RegionClasses) : n <= q
    /\ \E f \in FeedDeltaPositions(html) : HasDivider(html, f)
    /\ Cardinality(Positions(html, RegionClasses)) >= 3

-----------------------------------------------------------------------------
(* Properties of the rendered entries *)

\* the region of the one entry of the report, and the entry
ItemKind(a) ==
    IF a.stats # <<>> THEN "hotlist"
    ELSE IF a.new_titles # <<>> THEN "new_items"
    ELSE IF ~IsNone(a.rss_items) THEN "rss"
    ELSE "standalone"

TheItem(a) ==
    CASE ItemKind(a) = "hotlist" -> a.stats[1].titles[1]
      [] ItemKind(a) = "new_items" -> a.new_titles[1].titles[1]
      [] ItemKind(a) = "rss" -> a.rss_items.some[1].titles[1]
      [] OTHER -> a.standalone_data.some.platforms[1].items[1]

\* the text of the element of class cls: the strings from the end of its
\* opening tag to the start of the next tag
Shows(h, cls) == \E p \in 1..Len(h) : h[p] = cls

FirstPosition(h, cls) ==
    CHOOSE p \in Positions(h, {cls}) : \A q \in Positions(h, {cls}) : p <= q

ElementText(h, cls) ==
    LET p == FirstPosition(h, cls)
        q == CHOOSE x \in (p + 4)..Len(h) :
                 /\ h[x] \in {"</span>", "\n"}
                 /\ \A y \in (p + 4)..(x - 1) : h[y] \notin {"</span>", "\n"}
    IN  SubSeq(h, p + 4, q - 1)

\* the second class of the element of class cls
ElementModifier(h, cls) == h[FirstPosition(h, cls) + 2]

RankElement(a) == IF ItemKind(a) = "new_items" THEN "new-item-rank" ELSE "rank-num"

\* C17 (as claimed): in the hotlist, the new items and the standalone section
\* the tier of a rendered rank is top iff min(ranks) <= 3, high iff
\* 3 < min(ranks) <= the rank_threshold of the entry (10 when it has none),
\* and normal (no tier class) otherwise.
C17_RankTier ==
    (Rendered /\ TheItem(args).ranks # <<>>) =>
        LET item == TheItem(args)
            min == MinOf(item.ranks)
            tier == ElementModifier(html, RankElement(args))
        IN  /\ tier = "top" <=> min <= 3
            /\ tier = "high" <=> (3 < min /\ min <= RankThresholdOf(item))
            /\ tier = "" <=> min > 3 /\ min > RankThresholdOf(item)

\* C18 (as claimed): in the hotlist, the new items and the standalone section
\* the text of a rendered rank is min(ranks) alone when min(ranks) =
\* max(ranks), a list that repeats one value included, and "{min}-{max}"
\* otherwise.
C18_RankText ==
    (Rendered /\ TheItem(args).ranks # <<>>) =>
        LET ranks == TheItem(args).ranks
        IN  ElementText(html, RankElement(args)) =
                IF MinOf(ranks) = MaxOf(ranks) THEN <<ToString(MinOf(ranks))>>
                ELSE <<ToString(MinOf(ranks)), "-", ToString(MaxOf(ranks))>>

\* C19 (as claimed): the time element of an item of a standalone platform is
\* "{first}~{last}" when both times are present and unequal, the one time
\* alone when exactly one of them is present, and is not rendered when both
\* are absent (the times in the form they are displayed in).
C19_TimeRange ==
    (Rendered /\ ItemKind(args) = "standalone") =>
        LET first == TheItem(args).first_time
            last == TheItem(args).last_time
            shown == Shows(html, "time-info")
            text == ElementText(html, "time-info")
        IN  /\ (first # "" /\ last # "" /\ first # last) =>
                   /\ shown
                   /\ text = <<convert_time_for_display(first), "~",
                               convert_time_for_display(last)>>
            /\ (first # "" /\ last = "") =>
                   shown /\ text = <<convert_time_for_display(first)>>
            /\ (first = "" /\ last # "") =>
                   shown /\ text = <<convert_time_for_display(last)>>
            /\ (first = "" /\ last = "") => ~shown

\* C20: a news-item of the hotlist shows one of the two labels: in display
\* mode keyword the source name and no keyword tag; in display mode platform
\* the matched keyword between brackets as a tag if there is one, and no
\* source name.
C20_DisplayModeLabel ==
    (Rendered /\ ItemKind(args) = "hotlist") =>
        LET item == TheItem(args)
            source == Shows(html, "source-name")
            tag == Shows(html, "keyword-tag")
        IN  IF args.display_mode = "keyword"
            THEN /\ source /\ ~tag
                 /\ ElementText(html, "source-name") = <<html_escape(item.source_name)>>
            ELSE /\ ~source
                 /\ tag <=> item.matched_keyword # ""
                 /\ tag => ElementText(html, "keyword-tag") =
                               <<"[", html_escape(item.matched_keyword), "]">>

\* a hotlist entry with a matched keyword, rendered in display mode platform
C20_Witness ==
    /\ Rendered
    /\ ItemKind(args) = "hotlist"
    /\ args.display_mode = "platform"
    /\ TheItem(args).matched_keyword = "kw"
    /\ Shows(html, "keyword-tag")

\* the target of the link of the rendered entry, "" when it has no link
LinkTarget(h) ==
    IF Shows(h, "<a href=\"") THEN h[FirstPosition(h, "<a href=\"") + 1] ELSE ""

\* C21 (as claimed): in the hotlist, the new items and the standalone section
\* the link of an entry goes to its mobile url when it has one, to its url
\* when it has only that, and the title is rendered without a link when it
\* has neither.
C21_MobileUrlFirst ==
    Rendered =>
        LET item == TheItem(args)
        IN  /\ LinkTarget(html) = html_escape(OrElse(item.mobileUrl, item.url))
            /\ Shows(html, "news-link") <=> (item.mobileUrl # "" \/ item.url # "")

\* the arguments with every key the entry lacks set to the empty string
Filled(a) ==
    ItemArgs(ItemKind(a),
             [k \in DOMAIN Entry("t") |-> Get(TheItem(a), k, "")],
             a.display_mode)

\* C22 (as claimed): no call raises because its entry lacks the title, the
\* url or the source name, in the hotlist in either display mode, the new
\* items, the rss section and the standalone section; the report returned is
\* the one of the entry with the missing fields empty.
C22_MissingFieldsNeverRaise ==
    /\ raised = ""
    /\ Rendered => html = render_html_content(Filled(args))

MinuteOf(t) == t \div TicksPerMinute

-----------------------------------------------------------------------------
(* Properties of the exports *)

\* the body of the function is running or suspended at an await
InProgress(f) == pc[f] \notin {"idle", "savedShown", "failedShown"}

Rejected(f) == \E c \in CapturesOf(f) : c.status = "rejected"

SegmentImage(k) ==
    Image("clone", segments[k].start, segments[k].end - segments[k].start)

\* C6 (as claimed): two exports are never in progress at the same time.
C6_OneExportAtATime == ~(InProgress(SI) /\ InProgress(SM))

\* C7: when the capture of a segment fails, the step that resumes
\* saveAsMultipleImages ends the export in the failure state: the failure label
\* is shown, no capture of this export is pending or issued from then on until
\* the button is restored, and the artifacts of the export stay as they were.
C7_CaptureFailureAborts ==
    [][ /\ (pc[SM] = "capturing" /\ Rejected(SM) /\ pc'[SM] # pc[SM]) =>
               /\ pc'[SM] = "failedShown"
               /\ btnText'[SM] = Label("Failed", 0, 0)
               /\ downloads'[SM] = downloads[SM]
               /\ images' = images
        /\ (pc[SM] = "failedShown") =>
               /\ CapturesOf(SM)' = {}
               /\ downloads'[SM] = downloads[SM]
               /\ pc'[SM] = "failedShown" => btnText'[SM] = Label("Failed", 0, 0)
      ]_vars

\* the second of four captures has failed
C7_Witness ==
    /\ pc[SM] = "failedShown"
    /\ Len(images) = 1
    /\ Len(segments) = 4

ResultShown(f) == btnText[f].kind \in {"Saved", "SavedN", "Failed"}

Ready(f) == pc[f] = "idle" /\ ~btnDisabled[f] /\ btnText[f] = ButtonLabel(f)

\* C8: an export that has started gets back to the ready state: a rejected
\* capture leads to the failure label, the last resolved capture to the success
\* label, and either label to the original label on an enabled button.
C8_ExportReturnsToReady ==
    /\ \A f \in Fns : (pc[f] # "idle") ~> Ready(f)
    /\ \A f \in Fns : Rejected(f) ~> (btnText[f] = Label("Failed", 0, 0))
    /\ (\E c \in CapturesOf(SI) : c.status = "resolved")
           ~> (btnText[SI] = Label("Saved", 0, 0))
    /\ (\E c \in CapturesOf(SM) : c.status = "resolved" /\ c.seg = Len(segments))
           ~> (btnText[SM] = Label("SavedN", 0, Len(segments)))
    /\ \A f \in Fns : ResultShown(f) ~> Ready(f)
    /\ [](\A f \in Fns : btnDisabled[f] <=> pc[f] # "idle")

\* a failed segmented export and a finished single-image export, both waiting
\* for their buttons to be restored
C8_Witness ==
    /\ pc[SM] = "failedShown" /\ btnDisabled[SM]
    /\ pc[SI] = "savedShown" /\ btnDisabled[SI]

\* C9: the artifacts of a segmented export are emitted in segment order, the
\* k-th one named _part{k} and holding the image of the k-th segment, and a
\* successful export of n segments has emitted exactly n of them.
C9_ArtifactsInSegmentOrder ==
    /\ Len(downloads[SM]) <= Len(segments)
    /\ \A k \in 1..Len(downloads[SM]) :
           downloads[SM][k] = Artifact(k, SegmentImage(k))
    /\ pc[SM] = "savedShown" => Len(downloads[SM]) = Len(segments)

\* a successful export of four segments
C9_Witness ==
    /\ pc[SM] = "savedShown"
    /\ Len(segments) = 4
    /\ Len(downloads[SM]) = 4

\* C10: a segmented export has one capture in flight at most; the capture in
\* flight is that of the segment after those already captured, and the images
\* captured so far are those of the first segments, in order.
C10_OneCaptureInFlight ==
    /\ Cardinality(CapturesOf(SM)) <= 1
    /\ \A c \in CapturesOf(SM) :
           /\ c.seg = Len(images) + 1
           /\ c.seg <= Len(segments)
           /\ c.image = SegmentImage(c.seg)
    /\ \A k \in 1..Len(images) : images[k] = SegmentImage(k)

\* the capture of the third segment is pending
C10_Witness ==
    /\ pc[SM] = "capturing"
    /\ \E c \in CapturesOf(SM) : c.seg = 3 /\ c.status = "pending"

\* the segmented export has returned or is only waiting for its 2 s timer
Ended(f) == pc[f] \in {"idle", "savedShown", "failedShown"}

\* C28: a segmented export emits no artifact before the captures of all its
\* segments have resolved, and an export one of whose captures was rejected
\* has emitted none.
C28_AllOrNothing ==
    /\ downloads[SM] # <<>> =>
           /\ Len(images) = Len(segments)
           /\ CapturesOf(SM) = {}
           /\ \A k \in 1..Len(segments) : images[k] = SegmentImage(k)
    /\ Rejected(SM) => downloads[SM] = <<>>
    /\ pc[SM] = "failedShown" => downloads[SM] = <<>>

\* three of four captures have succeeded and the fourth has failed
C28_Witness ==
    /\ pc[SM] = "failedShown"
    /\ Len(segments) = 4
    /\ Len(images) = 3
    /\ downloads[SM] = <<>>

\* C29 (as claimed): once a segmented export has ended, by success or by a
\* failed capture, no temporary container of it is left in the document body.
C29_TempContainersRemoved == Ended(SM) => bodyTemp = 0

\* a capture of the live container by saveAsImage is pending
LiveCaptureInFlight == \E c \in CapturesOf(SI) : c.status = "pending"

\* C30 (as claimed): the save buttons are hidden while a capture of the live
\* container by saveAsImage is in flight, and visible when no export is in
\* progress.
C30_ButtonsHiddenDuringCapture ==
    /\ LiveCaptureInFlight => ~buttonsVisible
    /\ (Ended(SI) /\ Ended(SM)) => buttonsVisible

-----------------------------------------------------------------------------
(* Properties of the segmentation *)

Segmented == elements # <<>>

SegHeight(k) == segments[k].end - segments[k].start

\* the anchor blocks whose range [top, bottom) lies inside segment k
AnchorsIn(k) ==
    {j \in 1..Len(elements) :
        segments[k].start <= elements[j].top /\ elements[j].bottom <= segments[k].end}

\* C1: the segments are contiguous, non-overlapping and cover the document
\* exactly once: there is at least one, the first starts at 0, each later one
\* starts where the one before it ends, each has end > start, and the last one
\* ends at the full height of the container.
C1_SegmentsCoverDocument ==
    Segmented =>
        /\ Len(segments) >= 1
        /\ segments[1].start = 0
        /\ \A k \in 2..Len(segments) : segments[k].start = segments[k - 1].end
        /\ \A k \in 1..Len(segments) : segments[k].end > segments[k].start
        /\ segments[Len(segments)].end = ContainerHeight(layout)

\* a document split in three or more segments with content that is no anchor
C1_Witness ==
    /\ Segmented
    /\ Len(segments) >= 3
    /\ \E k \in 1..Len(layout) : layout[k].type = "other"

\* C2: no anchor block is split: every segment boundary strictly inside the
\* document is the bottom edge of an anchor block, and the range of every
\* anchor block lies inside exactly one segment.
C2_NoAnchorSplit ==
    Segmented =>
        /\ \A k \in 1..Len(segments) :
               (0 < segments[k].end /\ segments[k].end < ContainerHeight(layout))
                   => \E j \in 1..Len(elements) : elements[j].bottom = segments[k].end
        /\ \A j \in 1..Len(elements) :
               Cardinality({k \in 1..Len(segments) : j \in AnchorsIn(k)}) = 1

\* a document split in two or more segments that holds a block taller than the budget
C2_Witness ==
    /\ Segmented
    /\ Len(segments) >= 2
    /\ \E j \in 1..Len(elements) : elements[j].height > maxHeight

\* C3 (as claimed): every segment is at most maxHeight high, or holds a single
\* anchor block that is itself higher than maxHeight.
C3_HeightWithinBudget ==
    Segmented =>
        \A k \in 1..Len(segments) :
            \/ SegHeight(k) <= maxHeight
            \/ \E j \in AnchorsIn(k) :
                   elements[j].height > maxHeight /\ AnchorsIn(k) = {j}

\* C4 (as claimed): the segment that holds an anchor block higher than
\* maxHeight holds no other anchor block.
C4_OversizeBlockAlone ==
    Segmented =>
        \A j \in 1..Len(elements) :
            elements[j].height > maxHeight =>
                \A k \in 1..Len(segments) : j \in AnchorsIn(k) => AnchorsIn(k) = {j}

-----------------------------------------------------------------------------
(* The two documents in px *)

IsThreeItems == \E w \in 0..MaxBlockHeight : layout = ThreeItemsLayout(w)

\* the anchors of the news items, in document order
ItemAnchors == SeqOfSet({j \in 1..Len(elements) : elements[j].type = "news-item"}, 1)

\* C11 (as claimed): for header 400, three items of 1500, footer 300 and a
\* budget of 3333 the first segment is header + item1 + item2: it ends at the
\* bottom edge of the second item (offset 3400 when back to back).
C11_FirstSegmentTwoItems ==
    (Segmented /\ IsThreeItems) =>
        segments[1].end = elements[ItemAnchors[2]].bottom

\* C11 (amended): for that document the first segment is header + item1: it
\* ends at the bottom edge of the first item (offset 1900 when back to back),
\* and the other two items and the footer are the second and last segment.
C11_FirstSegmentOneItem ==
    (Segmented /\ IsThreeItems) =>
        /\ Len(segments) = 2
        /\ segments[1].start = 0
        /\ segments[1].end = elements[ItemAnchors[1]].bottom
        /\ segments[2].start = segments[1].end
        /\ segments[2].end = ContainerHeight(layout)
        /\ (layout = ThreeItemsLayout(0) =>
               segments[1].end = 1900 /\ segments[2].end = 5200)

\* the document of the example, back to back, has been split
C11_Witness ==
    /\ Segmented
    /\ layout = ThreeItemsLayout(0)
    /\ maxHeight = 3333
    /\ Len(segments) = 2

IsTallItem ==
    \E hh \in 1..MaxHeaderHeight, w \in 1..MaxBlockHeight, fh \in 1..MaxFooterHeight :
        layout = TallItemLayout(hh, w, fh)

\* C12 (as claimed): for a document whose only news item is 6000 high and a
\* budget of 3333 there is exactly one segment, it holds only that item, and
\* it is 6000 high.
C12_OneSegmentOnly ==
    (Segmented /\ IsTallItem) =>
        /\ Len(segments) = 1
        /\ AnchorsIn(1) = {ItemAnchors[1]}
        /\ SegHeight(1) = 6000

\* C12 (amended): for that document exactly one of the segments holds the
\* item; it holds only that item and is 6000 high, from the top edge of the
\* item to its bottom edge.  The page header with the header of the word
\* group is the segment before it and the footer is the segment after it.
C12_ItemSegmentOnly ==
    (Segmented /\ IsTallItem) =>
        LET j == ItemAnchors[1]
        IN  /\ Len(segments) = 3
            /\ AnchorsIn(2) = {j}
            /\ segments[2].start = elements[j].top
            /\ segments[2].end = elements[j].bottom
            /\ SegHeight(2) = 6000
            /\ segments[2].height = 6000
            /\ j \notin AnchorsIn(1) \cup AnchorsIn(3)
            /\ segments[1].includeHeader /\ ~segments[2].includeHeader

\* the document with the item of 6000 has been split
C12_Witness ==
    /\ Segmented
    /\ IsTallItem
    /\ elements[ItemAnchors[1]].height = 6000
    /\ SegHeight(2) > maxHeight

-----------------------------------------------------------------------------
(* The split rule *)

\* C24 (as claimed): in a segment after the first that already holds a block,
\* an anchor block whose inclusion makes the segment higher than maxHeight is
\* not included: no anchor that follows, in the anchor list, another anchor of
\* the same later segment ends more than maxHeight below the segment's start.
C24_LaterSegmentsSplit ==
    Segmented =>
        \A k \in 2..Len(segments) :
            \A j \in 3..Len(elements) :
                (j \in AnchorsIn(k) /\ (j - 1) \in AnchorsIn(k))
                    => elements[j].bottom - segments[k].start <= maxHeight

\* the anchor that follows the header in the document
NextAfterHeader ==
    CHOOSE j \in 2..Len(elements) :
        \A i \in 2..Len(elements) : elements[j].top <= elements[i].top

\* C25: the first segment is never the header alone: it holds the header and
\* the anchor block that follows it in the document, also when that block
\* makes the segment higher than maxHeight.
C25_NoHeaderOnlySegment ==
    Segmented =>
        /\ 1 \in AnchorsIn(1)
        /\ NextAfterHeader \in AnchorsIn(1)
        /\ segments[1].includeHeader
        /\ segments[1].end > elements[1].bottom

\* a first segment above the budget because of the block next to the header,
\* in a document of two segments or more
C25_Witness ==
    /\ Segmented
    /\ Len(segments) >= 2
    /\ elements[NextAfterHeader].bottom > maxHeight
    /\ SegHeight(1) > maxHeight

\* C26 (as claimed): the anchor list is in document order: no anchor ends
\* above the anchor before it in the list.
C26_AnchorsInDocumentOrder ==
    Segmented =>
        \A j \in 2..Len(elements) : elements[j].bottom >= elements[j - 1].bottom

=============================================================================
